---- MODULE Spec2Model ----
(***************************************************************************)
(* Model of the boot-environment applet's synchronisation engine           *)
(* (src/src/app.rs): the record decoder, the enumeration loader, the two   *)
(* bus listeners, the reducer (AppModel::update) and the activation task,  *)
(* together with the remote service they talk to.                          *)
(***************************************************************************)
EXTENDS Integers, Sequences, FiniteSets, TLC

\* ------------------------------------------------------------------ bounds
\* Number of object paths the remote service may expose.
NumPaths == 2
\* Number of distinct creation timestamps (100, 200, ...).
MaxCreated == 2
\* Number of state changes the remote service performs on its own.
MaxSrvOps == 2
\* Number of activation requests the user issues.
MaxActivations == 1
\* Capacity of each listener's channel to the runtime.
ChanCap == 32

Paths == 1..NumPaths
CreatedVals == {100 * k : k \in 1..MaxCreated}

\* ----------------------------------------------------- wire values (zvariant)
\* A zvariant::Value: t is the D-Bus type, "none" stands for a key that the
\* dictionary does not hold.
Str(s) == [t |-> "s", s |-> s, b |-> FALSE, i |-> 0]
Bool(b) == [t |-> "b", s |-> "", b |-> b, i |-> 0]
I64(i) == [t |-> "x", s |-> "", b |-> FALSE, i |-> i]
Missing == [t |-> "none", s |-> "", b |-> FALSE, i |-> 0]

PropKeys == {"Name", "Description", "Active", "NextBoot", "BootOnce", "Created"}

\* Option<String>
None == [some |-> FALSE, v |-> ""]
Some(s) == [some |-> TRUE, v |-> s]

\* struct BootEnvironmentObject
BootEnvironmentObject(path, name, description, active, next_boot, boot_once, created) ==
    [path |-> path, name |-> name, description |-> description,
     active |-> active, next_boot |-> next_boot, boot_once |-> boot_once,
     created |-> created]

\* The value of a failed decode (no record is produced).
NoEnv == BootEnvironmentObject(0, "", None, FALSE, FALSE, FALSE, 0)

\* A lookup that takes the default value of the type for an absent key.
get_prop_or_default(props, name, ty) == props[name].t \in {ty, "none"}

\* get_prop: the key must be present and downcast to the wanted type.
get_prop_ok(props, name, ty) == props[name].t = ty

\* A conversion that keeps every description, the empty one included.
description_always_some(description_str) == Some(description_str)

\* if description_str.is_empty() { None } else { Some(description_str) }
description_of(description_str) ==
    IF description_str = "" THEN None ELSE Some(description_str)

\* BootEnvironmentObject::from_properties: Ok(record) or Err.
from_properties(path, props) ==
    IF /\ get_prop_ok(props, "Description", "s")
       /\ get_prop_ok(props, "Name", "s")
       /\ get_prop_ok(props, "Active", "b")
       /\ get_prop_ok(props, "NextBoot", "b")
       /\ get_prop_ok(props, "BootOnce", "b")
       /\ get_prop_ok(props, "Created", "x")
    THEN [ok |-> TRUE,
          env |-> BootEnvironmentObject(
                     path,
                     props["Name"].s,
                     description_of(props["Description"].s),
                     props["Active"].b,
                     props["NextBoot"].b,
                     props["BootOnce"].b,
                     props["Created"].i)]
    ELSE [ok |-> FALSE, env |-> NoEnv]

\* ------------------------------------------------------------ remote objects
\* A well-formed property dictionary of interface ca.kamacite.BootEnvironment.
GoodProps(name, desc, active, next_boot, boot_once, created) ==
    [Name |-> Str(name), Description |-> Str(desc), Active |-> Bool(active),
     NextBoot |-> Bool(next_boot), BootOnce |-> Bool(boot_once),
     Created |-> I64(created)]

NoProps == [k \in PropKeys |-> Missing]

\* One entry of the service's object directory: present, whether it exposes
\* the boot-environment interface (be), and that interface's properties.
Absent == [present |-> FALSE, be |-> FALSE, props |-> NoProps]
BeObject(props) == [present |-> TRUE, be |-> TRUE, props |-> props]
OtherObject == [present |-> TRUE, be |-> FALSE, props |-> NoProps]

PathName(p) == IF p = 1 THEN "a" ELSE IF p = 2 THEN "b" ELSE IF p = 3 THEN "c" ELSE "d"

\* ---------------------------------------------------------------- sequences
Range(s) == {s[i] : i \in DOMAIN s}

\* All enumeration orders of a set (HashMap iteration order is unspecified).
Perms(S) == {s \in [1..Cardinality(S) -> S] : Range(s) = S}

RECURSIVE InsertSorted(_, _)
\* Insert e after every element whose created is <= e.created (stable).
InsertSorted(s, e) ==
    IF s = <<>> THEN <<e>>
    ELSE IF Head(s).created <= e.created
         THEN <<Head(s)>> \o InsertSorted(Tail(s), e)
         ELSE <<e>> \o s

\* A loader that returns the records in enumeration order.
SortByCreatedNone(s) == s

RECURSIVE SortByCreated(_)
\* environments.sort_by(|a, b| a.created.cmp(&b.created)): a stable sort.
SortByCreated(s) ==
    IF s = <<>> THEN <<>>
    ELSE InsertSorted(SortByCreated(SubSeq(s, 1, Len(s) - 1)), s[Len(s)])

RECURSIVE CollectEnvironmentsLenient(_, _)
\* A loader that skips the objects that do not decode.
CollectEnvironmentsLenient(objs, order) ==
    IF order = <<>> THEN [ok |-> TRUE, list |-> <<>>]
    ELSE LET p == Head(order)
             rest == CollectEnvironmentsLenient(objs, Tail(order))
             d == from_properties(p, objs[p].props)
         IN IF objs[p].be /\ d.ok
            THEN [ok |-> TRUE, list |-> <<d.env>> \o rest.list]
            ELSE rest

\* ------------------------------------------------------- enumeration loader
RECURSIVE CollectEnvironments(_, _)
\* The loop over get_managed_objects(): objects without the interface are
\* skipped, a decode error returns at once (the ? operator), the others are
\* pushed in enumeration order.
CollectEnvironments(objs, order) ==
    IF order = <<>> THEN [ok |-> TRUE, list |-> <<>>]
    ELSE LET p == Head(order)
             rest == CollectEnvironments(objs, Tail(order))
         IN IF ~objs[p].be THEN rest
            ELSE LET d == from_properties(p, objs[p].props)
                 IN IF ~d.ok THEN [ok |-> FALSE, list |-> <<>>]
                    ELSE IF ~rest.ok THEN rest
                    ELSE [ok |-> TRUE, list |-> <<d.env>> \o rest.list]

\* load_boot_environments over the directory objs enumerated in order.
load_boot_environments(objs, order) ==
    LET c == CollectEnvironments(objs, order)
    IN IF c.ok THEN [ok |-> TRUE, list |-> SortByCreated(c.list)]
       ELSE [ok |-> FALSE, list |-> <<>>]

\* The paths the directory currently holds.
Present(objs) == {p \in DOMAIN objs : objs[p].present}

\* ------------------------------------------------------------------ messages
\* enum Message, as delivered to AppModel::update.  origin records which task
\* produced a BootEnvironmentsLoaded ("initial" or "reload").
Msg(type, path, env, list, origin) ==
    [type |-> type, path |-> path, env |-> env, list |-> list, origin |-> origin]
Connected == Msg("Connected", 0, NoEnv, <<>>, "")
BootEnvironmentsLoaded(list, origin) == Msg("BootEnvironmentsLoaded", 0, NoEnv, list, origin)
Added(env) == Msg("Added", env.path, env, <<>>, "")
Removed(path) == Msg("Removed", path, NoEnv, <<>>, "")
BootEnvironmentsModified == Msg("BootEnvironmentsModified", 0, NoEnv, <<>>, "")
ActivateEnvironment(path) == Msg("ActivateEnvironment", path, NoEnv, <<>>, "")
NoMsg == Msg("", 0, NoEnv, <<>>, "")

\* Vec::retain(|env| env.path != path)
RECURSIVE Retain(_, _)
Retain(s, path) ==
    IF s = <<>> THEN <<>>
    ELSE IF Head(s).path # path THEN <<Head(s)>> \o Retain(Tail(s), path)
         ELSE Retain(Tail(s), path)

\* A sequence without its i-th element.
RemoveAt(s, i) == SubSeq(s, 1, i - 1) \o SubSeq(s, i + 1, Len(s))

\* ---------------------------------------------------------------- the popup
\* Option<usize> and Option<&BootEnvironmentObject>
NoIdx == [some |-> FALSE, v |-> 0]
SomeIdx(i) == [some |-> TRUE, v |-> i]
NoActive == [some |-> FALSE, env |-> NoEnv]
SomeActive(e) == [some |-> TRUE, env |-> e]

\* Iterator::position over the flags of the records: the 0-based index of the
\* first TRUE, scanning from the front.
RECURSIVE position_from(_, _)
position_from(flags, k) ==
    IF k > Len(flags) THEN NoIdx
    ELSE IF flags[k] THEN SomeIdx(k - 1)
         ELSE position_from(flags, k + 1)

position(flags) == position_from(flags, 1)

\* Option::or
OptionOr(a, b) == IF a.some THEN a ELSE b

\* A selection that looks for either flag in one pass.
selected_idx_either(envs) ==
    position([i \in DOMAIN envs |-> envs[i].boot_once \/ envs[i].next_boot])

\* position(|e| e.boot_once).or(position(|e| e.next_boot))
selected_idx(envs) ==
    OptionOr(position([i \in DOMAIN envs |-> envs[i].boot_once]),
             position([i \in DOMAIN envs |-> envs[i].next_boot]))

\* A summary that shows the last active record.
RECURSIVE active_env_last(_)
active_env_last(envs) ==
    IF envs = <<>> THEN NoActive
    ELSE IF envs[Len(envs)].active THEN SomeActive(envs[Len(envs)])
         ELSE active_env_last(SubSeq(envs, 1, Len(envs) - 1))

\* self.environments.iter().find(|e| e.active)
RECURSIVE active_env(_)
active_env(envs) ==
    IF envs = <<>> THEN NoActive
    ELSE IF Head(envs).active THEN SomeActive(Head(envs))
         ELSE active_env(Tail(envs))

\* view_window: the summary of the active boot environment and, when the
\* collection is not empty, the dropdown with its selection and its paths.
view_window(envs) ==
    [active_env |-> active_env(envs),
     dropdown |-> envs # <<>>,
     selected_idx |-> IF envs # <<>> THEN selected_idx(envs) ELSE NoIdx,
     paths |-> IF envs # <<>> THEN [i \in DOMAIN envs |-> envs[i].path] ELSE <<>>]

\* --------------------------------------------------------------------- state
VARIABLES
    remote,         \* the service's object directory: [Paths -> entry]
    srvOps,         \* number of changes the service has made on its own
    connecting,     \* the task of init: "pending" or "done"
    conn,           \* AppModel.conn is Some
    environments,   \* AppModel.environments
    inbox,          \* messages queued by the runtime for update, in arrival order
    omSub,          \* object_manager_stream: "none", "running" or "ended"
    pcSub,          \* properties_changed_stream: "none", "running" or "ended"
    addedStream,    \* InterfacesAdded signals not yet taken by the listener
    removedStream,  \* InterfacesRemoved signals not yet taken by the listener
    propStream,     \* number of PropertiesChanged messages not yet taken by the listener
    omChan,         \* channel of object_manager_stream
    pcChan,         \* channel of properties_changed_stream
    loads,          \* load_boot_environments tasks in flight
    activations,    \* activate_boot_environment tasks in flight
    nActs,          \* number of activation requests issued by the user
    crashed,        \* the unreachable!() of update was executed
    view,           \* what view_window rendered from the collection last
    lastMsg,        \* history: the message update handled last
    prevMsg,        \* history: the message update handled before lastMsg
    degraded        \* history: a load or decode failed, or a signal had no subscriber

vars == <<remote, srvOps, connecting, conn, environments, inbox, omSub, pcSub,
          addedStream, removedStream, propStream, omChan, pcChan, loads,
          activations, nActs, crashed, view, lastMsg, prevMsg, degraded>>

srvVars == <<remote, srvOps>>
subVars == <<omSub, pcSub>>
streamVars == <<addedStream, removedStream, propStream>>
chanVars == <<omChan, pcChan>>
taskVars == <<loads, activations>>
histVars == <<lastMsg, prevMsg>>

\* The boot environment the service starts with.
InitialProps == GoodProps(PathName(1), "", TRUE, TRUE, FALSE, 100)

\* AppModel::init, and a service that holds no object or one boot environment.
Init ==
    /\ remote \in {[p \in Paths |-> Absent],
                   [p \in Paths |-> IF p = 1 THEN BeObject(InitialProps) ELSE Absent]}
    /\ srvOps = 0
    /\ connecting = "pending"
    /\ conn = FALSE
    /\ environments = <<>>
    /\ inbox = <<>>
    /\ omSub = "none"
    /\ pcSub = "none"
    /\ addedStream = <<>>
    /\ removedStream = <<>>
    /\ propStream = 0
    /\ omChan = <<>>
    /\ pcChan = <<>>
    /\ loads = <<>>
    /\ activations = <<>>
    /\ nActs = 0
    /\ crashed = FALSE
    /\ view = view_window(<<>>)
    /\ lastMsg = NoMsg
    /\ prevMsg = NoMsg
    /\ degraded = FALSE

\* ------------------------------------------------------------ the connection
\* zbus::Connection::system() succeeded: the closure of init yields Connected.
ConnectOk ==
    /\ connecting = "pending"
    /\ connecting' = "done"
    /\ inbox' = Append(inbox, Connected)
    /\ UNCHANGED <<srvVars, conn, environments, subVars, streamVars, chanVars,
                   taskVars, nActs, crashed, view, histVars, degraded>>

\* zbus::Connection::system() failed: logged, Action::None.
ConnectFail ==
    /\ connecting = "pending"
    /\ connecting' = "done"
    /\ UNCHANGED <<srvVars, conn, environments, inbox, subVars, streamVars,
                   chanVars, taskVars, nActs, crashed, view, histVars, degraded>>

\* --------------------------------------------------------- the remote service
\* A boot-environment dictionary that lacks the Created property.
BadProps(p) == [GoodProps(PathName(p), "", FALSE, FALSE, FALSE, 0) EXCEPT !["Created"] = Missing]

\* The objects the service may add at path p.
NewObjects(p) ==
    {BeObject(GoodProps(PathName(p), "", FALSE, FALSE, FALSE, c)) : c \in CreatedVals}
        \cup {BeObject(BadProps(p)), OtherObject}

\* The service adds an object and emits InterfacesAdded to the subscribers.
SrvAdd(p, obj) ==
    /\ srvOps < MaxSrvOps
    /\ ~remote[p].present
    /\ remote' = [remote EXCEPT ![p] = obj]
    /\ srvOps' = srvOps + 1
    /\ addedStream' = IF omSub = "running"
                      THEN Append(addedStream, [path |-> p, be |-> obj.be, props |-> obj.props])
                      ELSE addedStream
    /\ degraded' = (degraded \/ omSub # "running")
    /\ UNCHANGED <<connecting, conn, environments, inbox, subVars, removedStream,
                   propStream, chanVars, taskVars, nActs, crashed, view, histVars>>

\* The service removes an object and emits InterfacesRemoved, which names the
\* path and the interfaces removed (be: the boot-environment one is among them).
SrvRemove(p) ==
    /\ srvOps < MaxSrvOps
    /\ remote[p].present
    /\ remote' = [remote EXCEPT ![p] = Absent]
    /\ srvOps' = srvOps + 1
    /\ removedStream' = IF omSub = "running"
                        THEN Append(removedStream, [path |-> p, be |-> remote[p].be])
                        ELSE removedStream
    /\ degraded' = (degraded \/ omSub # "running")
    /\ UNCHANGED <<connecting, conn, environments, inbox, subVars, addedStream,
                   propStream, chanVars, taskVars, nActs, crashed, view, histVars>>

\* The service changes a property (NextBoot) of a boot environment and emits
\* one PropertiesChanged.
SrvSetProp(p) ==
    /\ srvOps < MaxSrvOps
    /\ remote[p].be
    /\ remote' = [remote EXCEPT ![p].props["NextBoot"] = Bool(~remote[p].props["NextBoot"].b)]
    /\ srvOps' = srvOps + 1
    /\ propStream' = IF pcSub = "running" THEN propStream + 1 ELSE propStream
    /\ degraded' = (degraded \/ pcSub # "running")
    /\ UNCHANGED <<connecting, conn, environments, inbox, subVars, addedStream,
                   removedStream, chanVars, taskVars, nActs, crashed, view, histVars>>

\* The paths whose BootOnce changes when p is activated temporarily.
ActivationChanges(objs, p) ==
    {q \in DOMAIN objs : objs[q].be /\ objs[q].props["BootOnce"].b # (q = p)}

\* The directory after Activate(true) on p: p alone has BootOnce set.
Activated(objs, p) ==
    [q \in DOMAIN objs |->
        IF objs[q].be THEN [objs[q] EXCEPT !.props["BootOnce"] = Bool(q = p)]
        ELSE objs[q]]

\* ---------------------------------------------------------------- the tasks
\* A load_boot_environments task: started, or holding its result.
LoadTask(origin) == [origin |-> origin, st |-> "started", list |-> <<>>]

\* The query of a load task is answered: the directory is enumerated in some
\* order and decoded.
LoadFetch(i, order) ==
    /\ i \in DOMAIN loads
    /\ loads[i].st = "started"
    /\ order \in Perms(Present(remote))
    /\ LET r == load_boot_environments(remote, order)
       IN /\ loads' = [loads EXCEPT ![i].st = IF r.ok THEN "ok" ELSE "err",
                                    ![i].list = r.list]
          /\ degraded' = (degraded \/ ~r.ok)
    /\ UNCHANGED <<srvVars, connecting, conn, environments, inbox, subVars,
                   streamVars, chanVars, activations, nActs, crashed, view, histVars>>

\* The proxy or the query of a load task fails (a transport error).
LoadFail(i) ==
    /\ i \in DOMAIN loads
    /\ loads[i].st = "started"
    /\ loads' = [loads EXCEPT ![i].st = "err"]
    /\ degraded' = TRUE
    /\ UNCHANGED <<srvVars, connecting, conn, environments, inbox, subVars,
                   streamVars, chanVars, activations, nActs, crashed, view, histVars>>

\* Result closures that turn an error into an empty list.
LoadOutcomeEmptyOnErr(task) == BootEnvironmentsLoaded(task.list, task.origin)

\* The closures of Task::perform in the Connected and BootEnvironmentsModified
\* handlers: Ok yields BootEnvironmentsLoaded, Err is logged (Action::None).
LoadOutcome(task) ==
    IF task.st = "ok" THEN BootEnvironmentsLoaded(task.list, task.origin) ELSE NoMsg

\* The runtime delivers an action: Action::None is dropped.
Deliver(q, action) == IF action = NoMsg THEN q ELSE Append(q, action)

\* A load task completes, in any order among the tasks in flight.
LoadDone(i) ==
    /\ i \in DOMAIN loads
    /\ loads[i].st # "started"
    /\ inbox' = Deliver(inbox, LoadOutcome(loads[i]))
    /\ loads' = RemoveAt(loads, i)
    /\ UNCHANGED <<srvVars, connecting, conn, environments, subVars, streamVars,
                   chanVars, activations, nActs, crashed, view, histVars, degraded>>

\* An activate_boot_environment task: started, or holding its result.
ActivateTask(path) == [path |-> path, st |-> "started"]

\* proxy.activate(true) is served: BootOnce moves to the object and the
\* service emits one PropertiesChanged per object it changed.
ActivateCall(i) ==
    /\ i \in DOMAIN activations
    /\ activations[i].st = "started"
    /\ remote[activations[i].path].be
    /\ LET p == activations[i].path
           n == Cardinality(ActivationChanges(remote, p))
       IN /\ remote' = Activated(remote, p)
          /\ propStream' = IF pcSub = "running" THEN propStream + n ELSE propStream
          /\ degraded' = (degraded \/ (n > 0 /\ pcSub # "running"))
    /\ activations' = [activations EXCEPT ![i].st = "ok"]
    /\ UNCHANGED <<srvOps, connecting, conn, environments, inbox, subVars,
                   addedStream, removedStream, chanVars, loads, nActs, crashed, view, histVars>>

\* The proxy or the call fails (no such object, a transport error).
ActivateFail(i) ==
    /\ i \in DOMAIN activations
    /\ activations[i].st = "started"
    /\ activations' = [activations EXCEPT ![i].st = "err"]
    /\ UNCHANGED <<srvVars, connecting, conn, environments, inbox, subVars,
                   streamVars, chanVars, loads, nActs, crashed, view, histVars, degraded>>

\* A completion closure that asks for a reload.
ActivateOutcomeReload(task) == BootEnvironmentsModified

\* The closure of Task::perform in the ActivateEnvironment handler: both
\* results are logged and yield Action::None.
ActivateOutcome(task) == NoMsg

\* An activation task completes.
ActivateDone(i) ==
    /\ i \in DOMAIN activations
    /\ activations[i].st # "started"
    /\ inbox' = Deliver(inbox, ActivateOutcome(activations[i]))
    /\ activations' = RemoveAt(activations, i)
    /\ UNCHANGED <<srvVars, connecting, conn, environments, subVars, streamVars,
                   chanVars, loads, nActs, crashed, view, histVars, degraded>>

\* ------------------------------------------------------------- the listeners
\* subscription() runs object_manager_stream once conn is stored; the proxy
\* and both signal streams are set up and the loop is entered.
OmStart ==
    /\ conn
    /\ omSub = "none"
    /\ omSub' = "running"
    /\ UNCHANGED <<srvVars, connecting, conn, environments, inbox, pcSub, streamVars,
                   chanVars, taskVars, nActs, crashed, view, histVars, degraded>>

\* A set-up failure that also ends the other listener.
OmStartFailEndsBoth ==
    /\ conn
    /\ omSub = "none"
    /\ omSub' = "ended"
    /\ pcSub' = "ended"
    /\ UNCHANGED <<srvVars, connecting, conn, environments, inbox, streamVars,
                   chanVars, taskVars, nActs, crashed, view, histVars, degraded>>

\* The proxy or a signal stream cannot be set up: logged, the listener returns.
OmStartFail ==
    /\ conn
    /\ omSub = "none"
    /\ omSub' = "ended"
    /\ UNCHANGED <<srvVars, connecting, conn, environments, inbox, pcSub, streamVars,
                   chanVars, taskVars, nActs, crashed, view, histVars, degraded>>

\* What the added branch of the loop sends for a signal: Added(env) when the
\* object has the interface and decodes, nothing otherwise.
AddedOutcome(sig) ==
    IF sig.be /\ from_properties(sig.path, sig.props).ok
    THEN Added(from_properties(sig.path, sig.props).env)
    ELSE NoMsg

\* A loop that returns when an added object does not decode.
OmAddedStopOnError ==
    /\ omSub = "running"
    /\ addedStream # <<>>
    /\ LET out == AddedOutcome(Head(addedStream))
       IN /\ out # NoMsg => Len(omChan) < ChanCap
          /\ omChan' = Deliver(omChan, out)
          /\ degraded' = (degraded \/ (Head(addedStream).be /\ out = NoMsg))
          /\ omSub' = IF Head(addedStream).be /\ out = NoMsg THEN "ended" ELSE omSub
    /\ addedStream' = Tail(addedStream)
    /\ UNCHANGED <<srvVars, connecting, conn, environments, inbox, pcSub,
                   removedStream, propStream, pcChan, taskVars, nActs, crashed, view, histVars>>

\* The loop takes an InterfacesAdded signal; send waits for room in the channel.
OmAdded ==
    /\ omSub = "running"
    /\ addedStream # <<>>
    /\ LET out == AddedOutcome(Head(addedStream))
       IN /\ out # NoMsg => Len(omChan) < ChanCap
          /\ omChan' = Deliver(omChan, out)
          /\ degraded' = (degraded \/ (Head(addedStream).be /\ out = NoMsg))
    /\ addedStream' = Tail(addedStream)
    /\ UNCHANGED <<srvVars, connecting, conn, environments, inbox, subVars,
                   removedStream, propStream, pcChan, taskVars, nActs, crashed, view, histVars>>

\* A branch that sends Removed only for a boot environment of the collection.
RemovedOutcomeChecked(sig) ==
    IF sig.be /\ \E i \in DOMAIN environments : environments[i].path = sig.path
    THEN Removed(sig.path)
    ELSE NoMsg

\* What the removed branch of the loop sends for a signal.
RemovedOutcome(sig) == Removed(sig.path)

\* The loop takes an InterfacesRemoved signal.
OmRemoved ==
    /\ omSub = "running"
    /\ removedStream # <<>>
    /\ Len(omChan) < ChanCap
    /\ omChan' = Deliver(omChan, RemovedOutcome(Head(removedStream)))
    /\ removedStream' = Tail(removedStream)
    /\ UNCHANGED <<srvVars, connecting, conn, environments, inbox, subVars,
                   addedStream, propStream, pcChan, taskVars, nActs, crashed,
                   view, histVars, degraded>>

\* The runtime takes the next message of object_manager_stream.
OmForward ==
    /\ omChan # <<>>
    /\ inbox' = Append(inbox, Head(omChan))
    /\ omChan' = Tail(omChan)
    /\ UNCHANGED <<srvVars, connecting, conn, environments, subVars, streamVars,
                   pcChan, taskVars, nActs, crashed, view, histVars, degraded>>

\* subscription() runs properties_changed_stream once conn is stored.
PcStart ==
    /\ conn
    /\ pcSub = "none"
    /\ pcSub' = "running"
    /\ UNCHANGED <<srvVars, connecting, conn, environments, inbox, omSub, streamVars,
                   chanVars, taskVars, nActs, crashed, view, histVars, degraded>>

\* The match rule or the message stream cannot be set up: the listener returns.
PcStartFail ==
    /\ conn
    /\ pcSub = "none"
    /\ pcSub' = "ended"
    /\ UNCHANGED <<srvVars, connecting, conn, environments, inbox, omSub, streamVars,
                   chanVars, taskVars, nActs, crashed, view, histVars, degraded>>

\* A loop that does not wait for room and loses the marker when the channel
\* is full.
PcChangedDropWhenFull ==
    /\ pcSub = "running"
    /\ propStream > 0
    /\ pcChan' = IF Len(pcChan) < ChanCap
                 THEN Append(pcChan, BootEnvironmentsModified) ELSE pcChan
    /\ propStream' = propStream - 1
    /\ UNCHANGED <<srvVars, connecting, conn, environments, inbox, subVars,
                   addedStream, removedStream, omChan, taskVars, nActs, crashed,
                   view, histVars, degraded>>

\* The loop takes one PropertiesChanged message and sends one marker.
PcChanged ==
    /\ pcSub = "running"
    /\ propStream > 0
    /\ Len(pcChan) < ChanCap
    /\ pcChan' = Append(pcChan, BootEnvironmentsModified)
    /\ propStream' = propStream - 1
    /\ UNCHANGED <<srvVars, connecting, conn, environments, inbox, subVars,
                   addedStream, removedStream, omChan, taskVars, nActs, crashed,
                   view, histVars, degraded>>

\* The runtime takes the next message of properties_changed_stream.
PcForward ==
    /\ pcChan # <<>>
    /\ inbox' = Append(inbox, Head(pcChan))
    /\ pcChan' = Tail(pcChan)
    /\ UNCHANGED <<srvVars, connecting, conn, environments, subVars, streamVars,
                   omChan, taskVars, nActs, crashed, view, histVars, degraded>>

\* ------------------------------------------------------------------ the user
\* The dropdown of the popup, offered when the collection is not empty:
\* selecting entry idx yields ActivateEnvironment(paths[idx]).
ViewActivate(idx) ==
    /\ nActs < MaxActivations
    /\ ~crashed
    /\ view.dropdown
    /\ idx \in DOMAIN view.paths
    /\ inbox' = Append(inbox, ActivateEnvironment(view.paths[idx]))
    /\ nActs' = nActs + 1
    /\ UNCHANGED <<srvVars, connecting, conn, environments, subVars, streamVars,
                   chanVars, taskVars, crashed, view, histVars, degraded>>

\* --------------------------------------------------------------- the reducer
\* A handler that extends the collection with the list.
OnLoadedExtend(envs, list) == envs \o list

\* self.environments = environments
OnLoaded(envs, list) == list

\* A handler that re-sorts after the push.
OnAddedSorted(envs, env) == SortByCreated(Append(envs, env))

\* self.environments.push(env)
OnAdded(envs, env) == Append(envs, env)

\* A handler that ignores the removal.
OnRemovedNoop(envs, path) == envs

\* A handler whose retain predicate is inverted.
OnRemovedInverted(envs, path) == SelectSeq(envs, LAMBDA e : e.path = path)

\* self.environments.retain(|env| env.path != path)
OnRemoved(envs, path) == Retain(envs, path)

\* A handler that starts the initial load twice.
UpdateConnectedTwoLoads(m) ==
    /\ m.type = "Connected"
    /\ conn' = TRUE
    /\ loads' = loads \o <<LoadTask("initial"), LoadTask("initial")>>
    /\ UNCHANGED <<environments, activations, crashed>>

\* A handler that starts the initial load and does not keep the connection.
UpdateConnectedNoStore(m) ==
    /\ m.type = "Connected"
    /\ conn' = conn
    /\ loads' = Append(loads, LoadTask("initial"))
    /\ UNCHANGED <<environments, activations, crashed>>

\* update(Message::Connected): store the connection, start the initial load.
UpdateConnected(m) ==
    /\ m.type = "Connected"
    /\ conn' = TRUE
    /\ loads' = Append(loads, LoadTask("initial"))
    /\ UNCHANGED <<environments, activations, crashed>>

\* update(Message::BootEnvironmentsLoaded)
UpdateLoaded(m) ==
    /\ m.type = "BootEnvironmentsLoaded"
    /\ environments' = OnLoaded(environments, m.list)
    /\ UNCHANGED <<conn, taskVars, crashed>>

\* update(Message::Added)
UpdateAdded(m) ==
    /\ m.type = "Added"
    /\ environments' = OnAdded(environments, m.env)
    /\ UNCHANGED <<conn, taskVars, crashed>>

\* update(Message::Removed)
UpdateRemoved(m) ==
    /\ m.type = "Removed"
    /\ environments' = OnRemoved(environments, m.path)
    /\ UNCHANGED <<conn, taskVars, crashed>>

\* A handler that starts no reload while one is in flight.
UpdateModifiedDebounced(m) ==
    /\ m.type = "BootEnvironmentsModified"
    /\ loads' = IF conn /\ \A i \in DOMAIN loads : loads[i].origin # "reload"
                THEN Append(loads, LoadTask("reload")) ELSE loads
    /\ UNCHANGED <<conn, environments, activations, crashed>>

\* update(Message::BootEnvironmentsModified): a reload when connected.
UpdateModified(m) ==
    /\ m.type = "BootEnvironmentsModified"
    /\ loads' = IF conn THEN Append(loads, LoadTask("reload")) ELSE loads
    /\ UNCHANGED <<conn, environments, activations, crashed>>

\* A handler that marks the chosen record as the reboot target at once.
UpdateActivateOptimistic(m) ==
    /\ m.type = "ActivateEnvironment"
    /\ activations' = IF conn THEN Append(activations, ActivateTask(m.path)) ELSE activations
    /\ crashed' = ~conn
    /\ environments' = [i \in DOMAIN environments |->
                          [environments[i] EXCEPT !.boot_once = (environments[i].path = m.path)]]
    /\ UNCHANGED <<conn, loads>>

\* update(Message::ActivateEnvironment): an activation task when connected,
\* unreachable!() otherwise.
UpdateActivate(m) ==
    /\ m.type = "ActivateEnvironment"
    /\ activations' = IF conn THEN Append(activations, ActivateTask(m.path)) ELSE activations
    /\ crashed' = ~conn
    /\ UNCHANGED <<conn, environments, loads>>

\* AppModel::update on the next message of the runtime.
Update ==
    /\ inbox # <<>>
    /\ ~crashed
    /\ LET m == Head(inbox)
       IN \/ UpdateConnected(m)
          \/ UpdateLoaded(m)
          \/ UpdateAdded(m)
          \/ UpdateRemoved(m)
          \/ UpdateModified(m)
          \/ UpdateActivate(m)
    /\ inbox' = Tail(inbox)
    /\ view' = view_window(environments')
    /\ lastMsg' = Head(inbox)
    /\ prevMsg' = lastMsg
    /\ UNCHANGED <<srvVars, connecting, subVars, streamVars, chanVars, nActs, degraded>>

\* ------------------------------------------------------------- specification
Next ==
    \/ ConnectOk
    \/ ConnectFail
    \/ \E p \in Paths : \E obj \in NewObjects(p) : SrvAdd(p, obj)
    \/ \E p \in Paths : SrvRemove(p)
    \/ \E p \in Paths : SrvSetProp(p)
    \/ \E i \in 1..Len(loads) : \E order \in Perms(Present(remote)) : LoadFetch(i, order)
    \/ \E i \in 1..Len(loads) : LoadFail(i)
    \/ \E i \in 1..Len(loads) : LoadDone(i)
    \/ \E i \in 1..Len(activations) : ActivateCall(i)
    \/ \E i \in 1..Len(activations) : ActivateFail(i)
    \/ \E i \in 1..Len(activations) : ActivateDone(i)
    \/ OmStart
    \/ OmStartFail
    \/ OmAdded
    \/ OmRemoved
    \/ OmForward
    \/ PcStart
    \/ PcStartFail
    \/ PcChanged
    \/ PcForward
    \/ \E idx \in 1..Len(environments) : ViewActivate(idx)
    \/ Update

Spec == Init /\ [][Next]_vars

\* ------------------------------------------------------------------- helpers
\* The step is AppModel::update handling the head of the inbox.
IsUpdate == inbox # <<>> /\ inbox' = Tail(inbox)

\* The step is update handling a message of the given type.
Handles(type) == IsUpdate /\ Head(inbox).type = type

\* The identities of a list of records.
PathsOf(list) == {list[i].path : i \in DOMAIN list}

\* The list without the records of identity path, order kept.
Without(list, path) == SelectSeq(list, LAMBDA e : e.path # path)

\* The step completes an activation task.
ActivationCompletes == Len(activations') < Len(activations)

C2_UniqueIdentities ==
    \A i, j \in DOMAIN environments :
        i # j => environments[i].path # environments[j].path

\* ---------------------------------------------------------------------- C3
\* Loaded is the result of a reload and its list holds the identity of rm.
RacingPair(loaded, rm) ==
    /\ loaded.type = "BootEnvironmentsLoaded"
    /\ loaded.origin = "reload"
    /\ rm.type = "Removed"
    /\ rm.path \in PathsOf(loaded.list)

\* C3 (as claimed): once a Removed(identity) and the Loaded of a reload whose
\* list holds that identity have both been handled, one right after the
\* other in either order, the collection equals the reload's list.
C3_ReloadAlwaysWins ==
    /\ RacingPair(prevMsg, lastMsg) => environments = prevMsg.list
    /\ RacingPair(lastMsg, prevMsg) => environments = lastMsg.list

\* C3 (amended): the event handled last wins: Removed then Loaded leaves the
\* reload's list, Loaded then Removed leaves the list without that identity.
C3_LastHandledWins ==
    /\ RacingPair(prevMsg, lastMsg) =>
            environments = Without(prevMsg.list, lastMsg.path)
    /\ RacingPair(lastMsg, prevMsg) => environments = lastMsg.list

\* The Loaded of a reload still holding the identity was handled first, then
\* the Removed, and the identity is gone from the collection.
C3_Witness ==
    /\ RacingPair(prevMsg, lastMsg)
    /\ lastMsg.path \notin PathsOf(environments)
    /\ environments # prevMsg.list

\* ---------------------------------------------------------------------- C4
\* Connected, both listeners running, nothing queued or in flight.
Quiescent ==
    /\ conn
    /\ omSub = "running"
    /\ pcSub = "running"
    /\ addedStream = <<>>
    /\ removedStream = <<>>
    /\ propStream = 0
    /\ omChan = <<>>
    /\ pcChan = <<>>
    /\ inbox = <<>>
    /\ loads = <<>>
    /\ activations = <<>>

\* The collection holds exactly the service's boot environments, each entry
\* with the service's current values.
Consistent ==
    /\ PathsOf(environments) = {p \in Paths : remote[p].be}
    /\ \A i \in DOMAIN environments :
          LET e == environments[i]
          IN from_properties(e.path, remote[e.path].props) = [ok |-> TRUE, env |-> e]

\* C4: in every quiescent state in which no load or decode failed and no
\* notification went unsubscribed, the collection is consistent with the service.
C4_QuiescentConsistent == (Quiescent /\ ~degraded) => Consistent

\* ---------------------------------------------------------------------- C5
\* C5: handling Loaded(list) leaves the collection equal to list.
C5_LoadedReplaces ==
    [][Handles("BootEnvironmentsLoaded") => environments' = Head(inbox).list]_vars

\* Loaded was handled right after an Added whose record is not in the list,
\* and the collection is the list.
C5_Witness ==
    /\ prevMsg.type = "Added"
    /\ lastMsg.type = "BootEnvironmentsLoaded"
    /\ prevMsg.env.path \notin PathsOf(lastMsg.list)
    /\ lastMsg.list # <<>>
    /\ environments = lastMsg.list

\* ---------------------------------------------------------------------- C6
\* C6: handling Added(record) on collection c leaves c followed by record.
C6_AddedAppends ==
    [][Handles("Added") =>
        /\ Len(environments') = Len(environments) + 1
        /\ SubSeq(environments', 1, Len(environments)) = environments
        /\ environments'[Len(environments')] = Head(inbox).env]_vars

\* Added was handled and its record is last, behind a record created later.
C6_Witness ==
    /\ lastMsg.type = "Added"
    /\ Len(environments) >= 2
    /\ environments[Len(environments)] = lastMsg.env
    /\ environments[Len(environments) - 1].created > lastMsg.env.created

\* ---------------------------------------------------------------------- C7
\* C7: handling Removed(identity) leaves the collection unchanged when no
\* entry has the identity; otherwise no entry with it remains and the others
\* keep their order.
C7_RemovedRetains ==
    [][Handles("Removed") =>
        /\ Head(inbox).path \notin PathsOf(environments) => environments' = environments
        /\ Head(inbox).path \notin PathsOf(environments')
        /\ environments' = Without(environments, Head(inbox).path)]_vars

\* Removed was handled right after a Loaded of two records, one of them with
\* the identity: the other one is kept.
C7_Witness ==
    /\ prevMsg.type = "BootEnvironmentsLoaded"
    /\ Len(prevMsg.list) = 2
    /\ lastMsg.type = "Removed"
    /\ lastMsg.path \in PathsOf(prevMsg.list)
    /\ Len(environments) = 1
    /\ environments[1].path # lastMsg.path

\* ------------------------------------------------- the loader on its own
\* Bounds of the directories the loader is run on.
LoadPathsN == 3
LoadCreatedN == 3
ChanFill == 34

LoadPaths == 1..LoadPathsN
LoadCreatedVals == {100 * k : k \in 1..LoadCreatedN}

\* What a path of the directory may hold: nothing, an object without the
\* interface, a boot environment that decodes, one that does not.
LoadEntries(p) ==
    {Absent, OtherObject, BeObject(BadProps(p))}
        \cup {BeObject(GoodProps(PathName(p), "", FALSE, FALSE, FALSE, c)) : c \in LoadCreatedVals}

\* A connected applet with two reloads in flight, over any such directory
\* that the service leaves unchanged.
InitLoad ==
    /\ remote \in {d \in [LoadPaths -> UNION {LoadEntries(p) : p \in LoadPaths}] :
                        \A p \in LoadPaths : d[p] \in LoadEntries(p)}
    /\ srvOps = 0
    /\ connecting = "done"
    /\ conn = TRUE
    /\ environments = <<>>
    /\ inbox = <<>>
    /\ omSub = "running"
    /\ pcSub = "running"
    /\ addedStream = <<>>
    /\ removedStream = <<>>
    /\ propStream = 0
    /\ omChan = <<>>
    /\ pcChan = <<>>
    /\ loads = <<LoadTask("reload"), LoadTask("reload")>>
    /\ activations = <<>>
    /\ nActs = 0
    /\ crashed = FALSE
    /\ view = view_window(<<>>)
    /\ lastMsg = BootEnvironmentsModified
    /\ prevMsg = BootEnvironmentsModified
    /\ degraded = FALSE

NextLoad ==
    \/ \E i \in 1..Len(loads) : \E order \in Perms(Present(remote)) : LoadFetch(i, order)
    \/ \E i \in 1..Len(loads) : LoadFail(i)
    \/ \E i \in 1..Len(loads) : LoadDone(i)

SpecLoad == InitLoad /\ [][NextLoad]_vars

\* The boot environments of the directory, and those that do not decode.
BePaths == {p \in DOMAIN remote : remote[p].be}
Undecodable == {p \in BePaths : ~from_properties(p, remote[p].props).ok}

\* The list is ascending by created.
Ascending(list) ==
    \A i, j \in DOMAIN list : i < j => list[i].created <= list[j].created

\* The lists the loads and the Loaded events of the inbox carry.
ReturnedLists ==
    {loads[i].list : i \in {k \in DOMAIN loads : loads[k].st = "ok"}}
        \cup {inbox[i].list : i \in DOMAIN inbox}

\* ---------------------------------------------------------------------- C8
\* C8: when every boot environment of the directory decodes, a load that is
\* answered returns exactly the objects exposing the interface, each once and
\* decoded, ascending by created.
C8_LoadSortedExact ==
    \A i \in DOMAIN loads :
        (loads[i].st = "ok" /\ Undecodable = {}) =>
            LET list == loads[i].list
            IN /\ PathsOf(list) = BePaths
               /\ Len(list) = Cardinality(BePaths)
               /\ \A k \in DOMAIN list :
                     list[k] = from_properties(list[k].path, remote[list[k].path].props).env
               /\ Ascending(list)

\* A load returned three records created at 100, 200 and 300 whose paths are
\* not in path order.
C8_Witness ==
    \E i \in DOMAIN loads :
        /\ loads[i].st = "ok"
        /\ Len(loads[i].list) = 3
        /\ [k \in 1..3 |-> loads[i].list[k].created] = <<100, 200, 300>>
        /\ [k \in 1..3 |-> loads[i].list[k].path] = <<1, 3, 2>>

\* An object without the interface is skipped: the load succeeds without it.
C8_WitnessSkipped ==
    \E i \in DOMAIN loads :
        /\ loads[i].st = "ok"
        /\ Len(loads[i].list) = 2
        /\ \E p \in DOMAIN remote : remote[p].present /\ ~remote[p].be

\* ---------------------------------------------------------------------- C9
\* C9: loads of the same directory return identical ordered lists.
C9_LoadIdempotent == Cardinality(ReturnedLists) <= 1

\* ---------------------------------------------------------------------- C10
\* C10: when a boot environment of the directory does not decode, an
\* answered load has failed and carries no record, and no Loaded event is
\* delivered for it.
C10_LoadAllOrNothing ==
    Undecodable # {} =>
        /\ \A i \in DOMAIN loads :
              loads[i].st # "started" => (loads[i].st = "err" /\ loads[i].list = <<>>)
        /\ inbox = <<>>

\* A directory with a boot environment that decodes and one that does not:
\* both loads were answered and completed, and nothing was delivered.
C10_Witness ==
    /\ Undecodable # {}
    /\ BePaths \ Undecodable # {}
    /\ loads = <<>>
    /\ inbox = <<>>
    /\ degraded

\* ---------------------------------------------------------------------- C11
\* The step completes a load task that failed.
FailedLoadCompletes ==
    \E i \in DOMAIN loads : loads[i].st = "err" /\ loads' = RemoveAt(loads, i)

\* C11: the completion of a failed load, initial or reload, delivers no event
\* and leaves the collection and the stored connection as they were; update
\* is not stopped by it and can handle every event that is queued.
C11_FailedLoadIsLocal ==
    /\ []((inbox # <<>> /\ ~crashed) => ENABLED Update)
    /\ [][FailedLoadCompletes =>
            /\ inbox' = inbox
            /\ environments' = environments
            /\ conn' = conn
            /\ crashed' = crashed]_vars

\* The initial load filled the collection, the reload started by the only
\* notification failed and completed, and a later event was handled: the
\* collection still holds the initial list.
C11_Witness ==
    /\ conn
    /\ degraded
    /\ pcSub = "running"
    /\ srvOps = 1
    /\ loads = <<>>
    /\ inbox = <<>>
    /\ prevMsg.type = "BootEnvironmentsModified"
    /\ lastMsg.type = "ActivateEnvironment"
    /\ environments # <<>>

\* ---------------------------------------------------------------------- C12
\* C12: the property listener turns each notification it takes into exactly
\* one Modified marker and produces none otherwise; update, with a connection
\* stored, starts exactly one load for each Modified it handles, whatever is
\* already in flight, and reloads are started by nothing else.
C12_OneReloadPerNotification ==
    [][/\ propStream' < propStream =>
            (propStream' = propStream - 1
                /\ pcChan' = Append(pcChan, BootEnvironmentsModified))
       /\ Len(pcChan') > Len(pcChan) => propStream' = propStream - 1
       /\ (Handles("BootEnvironmentsModified") /\ conn) =>
            loads' = Append(loads, [origin |-> "reload", st |-> "started", list |-> <<>>])
       /\ (Len(loads') > Len(loads) /\ loads'[Len(loads')].origin = "reload") =>
            Handles("BootEnvironmentsModified")]_vars

\* Two notifications were emitted and taken, both Modified events were
\* handled one after the other, and two reloads are in flight.
C12_Witness ==
    /\ srvOps = 2
    /\ propStream = 0
    /\ pcChan = <<>>
    /\ inbox = <<>>
    /\ prevMsg.type = "BootEnvironmentsModified"
    /\ lastMsg.type = "BootEnvironmentsModified"
    /\ Len(loads) = 2
    /\ \A i \in DOMAIN loads : loads[i].origin = "reload" /\ loads[i].st = "started"

\* ------------------------------------------------------------ the decoder
\* The values a key of a property dictionary can hold: absent, or a value of
\* any of the three types.
DecodeValues == {Missing, Str(""), Str("a"), Bool(TRUE), Bool(FALSE), I64(100)}

\* The service has added one object with an arbitrary dictionary while the
\* initial load was in flight: the object is decoded by the load and by the
\* structural listener.
InitDecode ==
    /\ \E d \in [PropKeys -> DecodeValues] :
          /\ remote = [p \in Paths |-> IF p = 1 THEN BeObject(d) ELSE Absent]
          /\ addedStream = <<[path |-> 1, be |-> TRUE, props |-> d]>>
    /\ srvOps = 1
    /\ connecting = "done"
    /\ conn = TRUE
    /\ environments = <<>>
    /\ inbox = <<>>
    /\ omSub = "running"
    /\ pcSub = "running"
    /\ removedStream = <<>>
    /\ propStream = 0
    /\ omChan = <<>>
    /\ pcChan = <<>>
    /\ loads = <<LoadTask("initial")>>
    /\ activations = <<>>
    /\ nActs = 0
    /\ crashed = FALSE
    /\ view = view_window(<<>>)
    /\ lastMsg = Connected
    /\ prevMsg = NoMsg
    /\ degraded = FALSE

NextDecode ==
    \/ \E i \in 1..Len(loads) : \E order \in Perms(Present(remote)) : LoadFetch(i, order)
    \/ \E i \in 1..Len(loads) : LoadDone(i)
    \/ OmAdded
    \/ OmForward
    \/ Update

SpecDecode == InitDecode /\ [][NextDecode]_vars

\* The dictionary of the object, and the messages produced so far and not yet
\* handled.
TheProps == remote[1].props
Produced == Range(omChan) \cup Range(inbox)

\* The dictionary has the six fields with the right types.
WellFormed(d) ==
    /\ d["Name"].t = "s" /\ d["Description"].t = "s"
    /\ d["Active"].t = "b" /\ d["NextBoot"].t = "b" /\ d["BootOnce"].t = "b"
    /\ d["Created"].t = "x"

\* The record carries the identity and the values of the dictionary.
FieldsOf(e, path, d) ==
    /\ e.path = path
    /\ e.name = d["Name"].s
    /\ e.active = d["Active"].b
    /\ e.next_boot = d["NextBoot"].b
    /\ e.boot_once = d["BootOnce"].b
    /\ e.created = d["Created"].i
    /\ e.description.some => e.description.v = d["Description"].s

\* ---------------------------------------------------------------------- C13
\* C13: a dictionary with the six fields of the right types always decodes,
\* in the load and in the listener, to one and the same record that carries
\* the identity and the values of the dictionary; a dictionary that lacks a
\* field or has one of another type never decodes: the load fails, the
\* listener sends nothing, and no record of it exists anywhere.
C13_DecodeTotalAllOrNothing ==
    /\ \A i \in DOMAIN loads : loads[i].st # "started" =>
          IF WellFormed(TheProps)
          THEN /\ loads[i].st = "ok"
               /\ Len(loads[i].list) = 1
               /\ FieldsOf(loads[i].list[1], 1, TheProps)
          ELSE loads[i].st = "err" /\ loads[i].list = <<>>
    /\ \A m \in Produced :
          /\ m.type = "Added" => WellFormed(TheProps) /\ FieldsOf(m.env, 1, TheProps)
          /\ m.type = "BootEnvironmentsLoaded" =>
                /\ WellFormed(TheProps)
                /\ Len(m.list) = 1
                /\ FieldsOf(m.list[1], 1, TheProps)
    /\ \A i \in DOMAIN environments : FieldsOf(environments[i], 1, TheProps)
    /\ \A i, j \in DOMAIN environments : environments[i] = environments[j]
    /\ \A m \in Produced : \A i \in DOMAIN environments :
          /\ m.type = "Added" => m.env = environments[i]
          /\ m.type = "BootEnvironmentsLoaded" => m.list = <<environments[i]>>
    /\ ~WellFormed(TheProps) => environments = <<>>
    /\ (WellFormed(TheProps) /\ addedStream = <<>>) =>
          \/ \E m \in Produced : m.type = "Added"
          \/ "Added" \in {lastMsg.type, prevMsg.type}

\* A well-formed dictionary was decoded by the listener and by the load, and
\* both records reached the collection.
C13_Witness ==
    /\ WellFormed(TheProps)
    /\ TheProps["BootOnce"].b /\ ~TheProps["Active"].b
    /\ Len(environments) = 2
    /\ loads = <<>> /\ addedStream = <<>> /\ inbox = <<>>

\* A dictionary whose only defect is the type of Created was refused by the
\* load and by the listener.
C13_WitnessRefused ==
    /\ TheProps = [GoodProps("a", "a", TRUE, FALSE, FALSE, 100) EXCEPT !["Created"] = Str("a")]
    /\ loads = <<>> /\ addedStream = <<>> /\ inbox = <<>> /\ omChan = <<>>
    /\ environments = <<>>
    /\ degraded

\* ---------------------------------------------------------------------- C14
\* The records decoded from the dictionary, wherever they are.
DecodedRecords ==
    UNION {Range(loads[i].list) : i \in DOMAIN loads}
    \cup {m.env : m \in {x \in Produced : x.type = "Added"}}
    \cup UNION {Range(m.list) : m \in {x \in Produced : x.type = "BootEnvironmentsLoaded"}}
    \cup Range(environments)

\* C14: a record decoded from a dictionary whose Description is the empty
\* string has no description; one decoded from a dictionary whose Description
\* is a non-empty string s has the description s.
C14_EmptyDescriptionIsNone ==
    \A e \in DecodedRecords :
        /\ TheProps["Description"].s = "" => e.description = [some |-> FALSE, v |-> ""]
        /\ TheProps["Description"].s # "" =>
              e.description = [some |-> TRUE, v |-> TheProps["Description"].s]

\* A dictionary with the empty Description was decoded by the load and its
\* record is the collection.
C14_Witness ==
    /\ WellFormed(TheProps)
    /\ TheProps["Description"].s = ""
    /\ lastMsg.type = "BootEnvironmentsLoaded"
    /\ Len(environments) = 1
    /\ ~environments[1].description.some

\* --------------------------------------------------------------- the popup
\* The service holds up to LoadPathsN boot environments created at the same
\* time, with any combination of flags, and the initial load is in flight:
\* the collection can come out in any order.
ViewEntries(p) ==
    {Absent} \cup {BeObject(GoodProps(PathName(p), "", a, n, b, 100)) :
                        a \in BOOLEAN, n \in BOOLEAN, b \in BOOLEAN}

InitView ==
    /\ remote \in {d \in [LoadPaths -> UNION {ViewEntries(p) : p \in LoadPaths}] :
                        \A p \in LoadPaths : d[p] \in ViewEntries(p)}
    /\ srvOps = 0
    /\ connecting = "done"
    /\ conn = TRUE
    /\ environments = <<>>
    /\ inbox = <<>>
    /\ omSub = "running"
    /\ pcSub = "running"
    /\ addedStream = <<>>
    /\ removedStream = <<>>
    /\ propStream = 0
    /\ omChan = <<>>
    /\ pcChan = <<>>
    /\ loads = <<LoadTask("initial")>>
    /\ activations = <<>>
    /\ nActs = 0
    /\ crashed = FALSE
    /\ view = view_window(<<>>)
    /\ lastMsg = Connected
    /\ prevMsg = NoMsg
    /\ degraded = FALSE

NextView ==
    \/ \E i \in 1..Len(loads) : \E order \in Perms(Present(remote)) : LoadFetch(i, order)
    \/ \E i \in 1..Len(loads) : LoadDone(i)
    \/ Update
    \/ \E idx \in 1..Len(environments) : ViewActivate(idx)

SpecView == InitView /\ [][NextView]_vars

\* The positions of the collection whose record has boot_once, next_boot, active.
BootOnceAt == {i \in DOMAIN environments : environments[i].boot_once}
NextBootAt == {i \in DOMAIN environments : environments[i].next_boot}
ActiveAt == {i \in DOMAIN environments : environments[i].active}
First(S) == CHOOSE i \in S : \A j \in S : i <= j

\* ---------------------------------------------------------------------- C15
\* C15: the selection of the dropdown is the (0-based) index of the first
\* record with boot_once if any record has it, otherwise the index of the
\* first record with next_boot, otherwise none; a boot_once record wins over
\* a next_boot record that comes earlier.
C15_RebootTargetSelection ==
    /\ BootOnceAt # {} =>
          view.selected_idx = [some |-> TRUE, v |-> First(BootOnceAt) - 1]
    /\ (BootOnceAt = {} /\ NextBootAt # {}) =>
          view.selected_idx = [some |-> TRUE, v |-> First(NextBootAt) - 1]
    /\ (BootOnceAt = {} /\ NextBootAt = {}) => ~view.selected_idx.some

\* The collection is [{next_boot}, {boot_once}] and index 1 is selected.
C15_Witness ==
    /\ Len(environments) = 2
    /\ environments[1].next_boot /\ ~environments[1].boot_once
    /\ environments[2].boot_once /\ ~environments[2].next_boot
    /\ view.dropdown
    /\ view.selected_idx = [some |-> TRUE, v |-> 1]
    /\ lastMsg.type = "BootEnvironmentsLoaded"

\* ---------------------------------------------------------------------- C16
\* C16: the summary of the popup shows the first record of the collection
\* with active, or none when no record is active; with several active
\* records it still shows the first and update is not stopped.
C16_ActiveIsFirstActive ==
    /\ ActiveAt # {} =>
          view.active_env = [some |-> TRUE, env |-> environments[First(ActiveAt)]]
    /\ ActiveAt = {} => ~view.active_env.some
    /\ ~crashed

\* Three records, the last two active: the summary shows the second.
C16_Witness ==
    /\ Len(environments) = 3
    /\ ActiveAt = {2, 3}
    /\ view.active_env.some
    /\ view.active_env.env = environments[2]
    /\ view.active_env.env # environments[3]
    /\ lastMsg.type = "BootEnvironmentsLoaded"

\* ---------------------------------------------------------------------- C17
\* The connection was announced and the announcement is not handled yet.
ConnectedQueued == \E i \in DOMAIN inbox : inbox[i].type = "Connected"

\* No connection was obtained and none is on its way.
ConnectionFailed == connecting = "done" /\ ~conn /\ ~ConnectedQueued

\* C17: the connection is attempted once and never again; while no handle is
\* stored the collection is empty and no listener, load or activation exists;
\* after a failed attempt that remains so for ever; Connected is announced
\* once, its handling stores the handle and starts exactly one initial load,
\* no other step starts an initial load, and a stored handle is never
\* cleared or stored anew.
C17_SessionEstablishedOnce ==
    /\ [](~conn => /\ environments = <<>>
                   /\ omSub = "none" /\ pcSub = "none"
                   /\ loads = <<>> /\ activations = <<>>)
    /\ []((conn \/ connecting = "pending") => ~ConnectedQueued)
    /\ [](Cardinality({i \in DOMAIN inbox : inbox[i].type = "Connected"}) <= 1)
    /\ [][/\ connecting = "done" => connecting' = "done"
          /\ conn => conn'
          /\ ConnectionFailed => ConnectionFailed'
          /\ Handles("Connected") =>
                /\ ~conn /\ conn'
                /\ loads' = Append(loads, [origin |-> "initial", st |-> "started", list |-> <<>>])
          /\ (Len(loads') > Len(loads) /\ loads'[Len(loads')].origin = "initial") =>
                (Handles("Connected") /\ Len(loads') = Len(loads) + 1)
          /\ conn' # conn => Handles("Connected")]_vars

\* The attempt failed; the service went on changing its objects and nothing
\* of it reached the applet.
C17_Witness ==
    /\ ConnectionFailed
    /\ srvOps = MaxSrvOps
    /\ \E p \in Paths : remote[p].be
    /\ environments = <<>> /\ inbox = <<>>
    /\ omSub = "none" /\ pcSub = "none"
    /\ degraded

\* ---------------------------------------------------------------------- C18
\* C18: handling an activation request changes neither the collection nor a
\* flag of a record; the completion of the remote call, failed or not,
\* changes neither and delivers nothing to update; the collection changes
\* only when update handles Loaded, Added or Removed.
C18_ActivationLeavesCollection ==
    [][/\ Handles("ActivateEnvironment") => environments' = environments
       /\ ActivationCompletes =>
            (environments' = environments /\ inbox' = inbox /\ crashed' = crashed)
       /\ environments' # environments =>
            \/ Handles("BootEnvironmentsLoaded")
            \/ Handles("Added")
            \/ Handles("Removed")]_vars

\* The activation of a record was requested, its call failed and completed:
\* the service did not change, nothing is queued or in flight, and the record
\* is in the collection as before.
C18_Witness ==
    /\ nActs = 1 /\ srvOps = 0
    /\ lastMsg.type = "ActivateEnvironment"
    /\ activations = <<>> /\ loads = <<>> /\ inbox = <<>>
    /\ propStream = 0 /\ pcChan = <<>>
    /\ remote[lastMsg.path].be
    /\ ~remote[lastMsg.path].props["BootOnce"].b
    /\ Len(environments) = 1
    /\ environments[1].path = lastMsg.path
    /\ ~environments[1].boot_once

\* ---------------------------------------------------------------------- C19
\* C19: whenever the collection is not empty, or the dropdown is shown, or an
\* activation request is queued, a connection is stored; the unreachable!()
\* of the ActivateEnvironment handler has never been executed.
C19_ActivationHasConnection ==
    /\ environments # <<>> => conn
    /\ view.dropdown => conn
    /\ \A i \in DOMAIN inbox : inbox[i].type = "ActivateEnvironment" => conn
    /\ ~crashed

\* An activation request was handled with the connection stored and its task
\* was started.
C19_Witness ==
    /\ lastMsg.type = "ActivateEnvironment"
    /\ conn /\ ~crashed
    /\ environments # <<>>
    /\ Len(activations) = 1
    /\ activations[1].path = lastMsg.path
    /\ activations[1].st = "started"

\* ------------------------------------------------- the structural listener
\* The applet is connected, its initial load found no boot environment and
\* was handled, both listeners run: the service adds and removes objects.
InitListener ==
    /\ remote = [p \in Paths |-> Absent]
    /\ srvOps = 0
    /\ connecting = "done"
    /\ conn = TRUE
    /\ environments = <<>>
    /\ inbox = <<>>
    /\ omSub = "running"
    /\ pcSub = "running"
    /\ addedStream = <<>>
    /\ removedStream = <<>>
    /\ propStream = 0
    /\ omChan = <<>>
    /\ pcChan = <<>>
    /\ loads = <<>>
    /\ activations = <<>>
    /\ nActs = 0
    /\ crashed = FALSE
    /\ view = view_window(<<>>)
    /\ lastMsg = BootEnvironmentsLoaded(<<>>, "initial")
    /\ prevMsg = Connected
    /\ degraded = FALSE

NextListener ==
    \/ \E p \in Paths : \E obj \in NewObjects(p) : SrvAdd(p, obj)
    \/ \E p \in Paths : SrvRemove(p)
    \/ OmAdded
    \/ OmRemoved
    \/ OmForward
    \/ Update

SpecListener == InitListener /\ [][NextListener]_vars

\* The step takes the next InterfacesAdded / InterfacesRemoved signal.
AddedTaken == addedStream # <<>> /\ addedStream' = Tail(addedStream)
RemovedTaken == removedStream # <<>> /\ removedStream' = Tail(removedStream)

\* The channel got exactly one more message, at its end.
Sent == Len(omChan') = Len(omChan) + 1 /\ SubSeq(omChan', 1, Len(omChan)) = omChan

\* ---------------------------------------------------------------------- C20
\* C20: when the structural listener takes an added notification whose
\* boot-environment dictionary does not decode, it sends nothing and keeps
\* running; a running listener never stops, can take every pending
\* notification for which the channel has room, and then sends Added with
\* the decoded record for a well-formed added object and Removed with the
\* path for a removed one.
C20_BadAddedIsDropped ==
    /\ []((omSub = "running" /\ addedStream # <<>> /\ Len(omChan) < ChanCap)
              => ENABLED OmAdded)
    /\ []((omSub = "running" /\ removedStream # <<>> /\ Len(omChan) < ChanCap)
              => ENABLED OmRemoved)
    /\ [][/\ omSub = "running" => omSub' = "running"
          /\ (AddedTaken /\ Head(addedStream).be /\ ~WellFormed(Head(addedStream).props)) =>
                /\ omChan' = omChan
                /\ inbox' = inbox
                /\ environments' = environments
          /\ (AddedTaken /\ Head(addedStream).be /\ WellFormed(Head(addedStream).props)) =>
                /\ Sent
                /\ omChan'[Len(omChan')].type = "Added"
                /\ FieldsOf(omChan'[Len(omChan')].env, Head(addedStream).path,
                            Head(addedStream).props)
          /\ RemovedTaken =>
                /\ Sent
                /\ omChan'[Len(omChan')].type = "Removed"
                /\ omChan'[Len(omChan')].path = Head(removedStream).path]_vars

\* The listener has dropped the added notification of an object that does
\* not decode; it runs, and the notification of a well-formed object added
\* later is pending and can be taken.
C20_Witness ==
    /\ degraded
    /\ omSub = "running"
    /\ remote[1].be /\ ~WellFormed(remote[1].props)
    /\ Len(addedStream) = 1
    /\ addedStream[1].path = 2
    /\ addedStream[1].be /\ WellFormed(addedStream[1].props)
    /\ omChan = <<>> /\ inbox = <<>> /\ environments = <<>>
    /\ ENABLED OmAdded

\* ---------------------------------------------------------------------- C21
\* C21: every removed notification the structural listener takes makes it
\* send Removed with the path of the notification, and nothing else: also
\* when the boot-environment interface is not among the removed ones and
\* when no record of the collection has that path.
C21_RemovedUnconditional ==
    [][RemovedTaken =>
          /\ omChan' = Append(omChan, [type |-> "Removed", path |-> Head(removedStream).path,
                                       env |-> NoEnv, list |-> <<>>, origin |-> ""])
          /\ omSub' = omSub
          /\ environments' = environments
          /\ inbox' = inbox]_vars

\* An object without the boot-environment interface was added and removed:
\* no record of it ever existed, and Removed for its path is in the channel.
C21_Witness ==
    /\ srvOps = 2
    /\ \A p \in Paths : ~remote[p].present
    /\ ~degraded
    /\ addedStream = <<>> /\ removedStream = <<>>
    /\ Len(omChan) = 1
    /\ omChan[1].type = "Removed"
    /\ omChan[1].path = 1
    /\ inbox = <<>> /\ environments = <<>>
    /\ lastMsg.type = "BootEnvironmentsLoaded"

\* ---------------------------------------------------------------------- C22
\* The messages of the given types that are queued for update.
Queued(types) == {i \in DOMAIN inbox : inbox[i].type \in types}

\* The step in which the set-up of a listener fails.
OmSetupFails == omSub # "ended" /\ omSub' = "ended"
PcSetupFails == pcSub # "ended" /\ pcSub' = "ended"

\* C22: a listener whose set-up fails ends in a step that queues nothing,
\* changes neither the collection nor the other listener and does not stop
\* update; it never sends an event afterwards; a running listener keeps
\* running and update can handle every queued message; with the structural
\* listener ended the collection changes only when a load result is handled,
\* with the property listener ended only through Added, Removed and the
\* initial load.
C22_FailedListenerIsLocal ==
    /\ [](omSub = "ended" =>
            /\ addedStream = <<>> /\ removedStream = <<>> /\ omChan = <<>>
            /\ Queued({"Added", "Removed"}) = {})
    /\ [](pcSub = "ended" =>
            /\ propStream = 0 /\ pcChan = <<>>
            /\ Queued({"BootEnvironmentsModified"}) = {}
            /\ \A i \in DOMAIN loads : loads[i].origin = "initial"
            /\ \A i \in DOMAIN inbox : inbox[i].origin # "reload")
    /\ []((inbox # <<>> /\ ~crashed) => ENABLED Update)
    /\ []((pcSub = "running" /\ propStream > 0 /\ Len(pcChan) < ChanCap) => ENABLED PcChanged)
    /\ [][/\ OmSetupFails =>
                /\ inbox' = inbox /\ environments' = environments
                /\ crashed' = crashed /\ pcSub' = pcSub
                /\ omChan' = omChan /\ pcChan' = pcChan /\ loads' = loads
          /\ PcSetupFails =>
                /\ inbox' = inbox /\ environments' = environments
                /\ crashed' = crashed /\ omSub' = omSub
                /\ omChan' = omChan /\ pcChan' = pcChan /\ loads' = loads
          /\ omSub = "running" => omSub' = "running"
          /\ pcSub = "running" => pcSub' = "running"
          /\ omSub = "ended" => omSub' = "ended"
          /\ pcSub = "ended" => pcSub' = "ended"
          /\ (omSub = "ended" /\ environments' # environments) =>
                Handles("BootEnvironmentsLoaded")
          /\ (pcSub = "ended" /\ environments' # environments) =>
                \/ Handles("Added")
                \/ Handles("Removed")
                \/ Handles("BootEnvironmentsLoaded") /\ Head(inbox).origin = "initial"]_vars

\* The structural listener could not be set up; the service added a boot
\* environment, which went unnoticed, and changed a property: the reload
\* started by the property listener brought both records into the collection.
C22_Witness ==
    /\ omSub = "ended" /\ pcSub = "running"
    /\ degraded
    /\ srvOps = 2
    /\ lastMsg.type = "BootEnvironmentsLoaded" /\ lastMsg.origin = "reload"
    /\ Len(environments) = 2
    /\ inbox = <<>> /\ loads = <<>>

\* ------------------------------------------------------------ the channels
\* The removed notifications the service has emitted, oldest first: it added
\* and removed an undecodable object at path 1 and at path 2 in turn.
EmittedRemoved == [i \in 1..ChanFill |-> [path |-> 2 - (i % 2), be |-> TRUE]]

\* The applet is connected, its initial load was handled and both listeners
\* run; more notifications than a channel holds are pending for one listener.
\* Either the structural listener has dropped every added notification of the
\* undecodable objects and has ChanFill removed notifications to take, or the
\* service changed NextBoot of its boot environment ChanFill times.
InitChannel ==
    /\ connecting = "done"
    /\ conn = TRUE
    /\ inbox = <<>>
    /\ omSub = "running"
    /\ pcSub = "running"
    /\ addedStream = <<>>
    /\ omChan = <<>>
    /\ pcChan = <<>>
    /\ loads = <<>>
    /\ activations = <<>>
    /\ nActs = 0
    /\ crashed = FALSE
    /\ prevMsg = Connected
    /\ \/ /\ remote = [p \in Paths |-> Absent]
          /\ srvOps = 2 * ChanFill
          /\ environments = <<>>
          /\ removedStream = EmittedRemoved
          /\ propStream = 0
          /\ degraded = TRUE
       \/ /\ remote = [p \in Paths |-> IF p = 1 THEN BeObject(InitialProps) ELSE Absent]
          /\ srvOps = ChanFill
          /\ environments = <<from_properties(1, InitialProps).env>>
          /\ removedStream = <<>>
          /\ propStream = ChanFill
          /\ degraded = FALSE
    /\ view = view_window(environments)
    /\ lastMsg = BootEnvironmentsLoaded(environments, "initial")

NextChannel ==
    \/ OmRemoved
    \/ OmForward
    \/ PcChanged
    \/ PcForward
    \/ Update

\* The listeners, the runtime that forwards their messages and update are
\* each scheduled for as long as they can run.
SpecChannel ==
    /\ InitChannel
    /\ [][NextChannel]_vars
    /\ WF_vars(OmRemoved) /\ WF_vars(OmForward)
    /\ WF_vars(PcChanged) /\ WF_vars(PcForward)
    /\ WF_vars(Update)

\* The paths of the Removed events on their way to update, oldest first:
\* queued for update, in the channel, and still to be sent.
RemovedUnderway ==
    [i \in DOMAIN inbox |-> inbox[i].path]
        \o [i \in DOMAIN omChan |-> omChan[i].path]
        \o [i \in DOMAIN removedStream |-> removedStream[i].path]

\* Every notification has become an event and every event was handled.
Drained ==
    /\ removedStream = <<>> /\ propStream = 0
    /\ omChan = <<>> /\ pcChan = <<>>
    /\ inbox = <<>>

C23_WitnessRemoved ==
    /\ Len(omChan) = 32
    /\ removedStream # <<>>
    /\ ~ENABLED OmRemoved
    /\ inbox = <<>>
    /\ lastMsg.type = "BootEnvironmentsLoaded"
    /\ \A i \in 1..32 : omChan[i].path = 2 - (i % 2)

====
